---- MODULE Spec2Model ----
(***************************************************************************)
(* Model of the two browser-automation scripts of the repository:          *)
(*   jles-scratch/verification/test.py                 (PiP Quit Verifier) *)
(*   jules-scratch/verification/verify_highlighting.py (Highlighting       *)
(*                                                      Verifier)          *)
(* Each script is a sequential process; the browser, the page and the      *)
(* extension are its environment.                                          *)
(***************************************************************************)
EXTENDS Integers, Sequences, FiniteSets, TLC

\* ------------------------------------------------------------------ bounds
MaxRuns == 2        \* invocations of each script against the same profile
MaxTabId == 2       \* tab ids the browser may assign to a page: 1..MaxTabId
MaxIdLen == 2       \* length of the extension identifier in the worker URL

\* ------------------------------------------------------- program constants
MaxPolls == 10            \* test.py:44   for i in range(10)
PollSleepMs == 500        \* test.py:48   asyncio.sleep(0.5)
PipTabIdLiteral == 1      \* test.py:58   { pipTabId: 1 }
ExtensionIdIndex == 2     \* verify_highlighting.py:31   split('/')[2]

DiagMsg == "Could not find extension background page or service worker."
PassMsg == "Test passed: Video is paused after quitting PiP."
FailMsg == "Test failed: Video is not paused after quitting PiP."
PipScreenshotPath == "jles-scratch/verification/screenshot.png"
HlScreenshotPath == "jules-scratch/verification/verification.png"
PipUserDataDir == "/tmp/test-user-data"
HlUserDataDir == "/tmp/playwright_user_data"

\* ----------------------------------------------------------------- helpers
Has(s, e) == \E k \in 1..Len(s) : s[k] = e
Count(s, e) == Cardinality({k \in 1..Len(s) : s[k] = e})
\* position of the first occurrence of e in s, 0 when absent
First(s, e) == IF Has(s, e) THEN CHOOSE k \in 1..Len(s) : s[k] = e /\ \A j \in 1..(k-1) : s[j] # e ELSE 0
\* position of the last occurrence of e in s, 0 when absent
Last(s, e) == IF Has(s, e) THEN CHOOSE k \in 1..Len(s) : s[k] = e /\ \A j \in (k+1)..Len(s) : s[j] # e ELSE 0

VARIABLES
    \* --- PiP Quit Verifier (test.py), per run
    pipPc,            \* position of main()
    pipRun,           \* invocations of test.py started so far
    i,                \* loop variable of the worker poll
    pollWaitMs,       \* milliseconds slept inside the worker poll
    background_page,  \* "None" or the worker found
    is_paused,        \* "None", "True" or "False"
    pipOut,           \* lines printed to stdout
    pipLog,           \* browser operations performed by this run, in order
    pipCtx,           \* browser context: "none", "open", "closed", "killed"
    pipTab,           \* tab id of the page, 0 before new_page
    pipVideo,         \* the fixture's video element
    pipWorkers,       \* context.service_workers
    pipWritePending,  \* chrome.storage.local.set issued, not yet committed
    pipStoredAtPress, \* what pipTabId held when the key was pressed, 0 = unset
    \* --- persistent across runs
    pipLocal,         \* chrome.storage.local pipTabId in the PiP profile, 0 = unset
    fs,               \* files present on disk
    profiles,         \* profile directories present on disk
    hlSync,           \* chrome.storage.sync of the Highlighting profile
    \* --- Highlighting Verifier (verify_highlighting.py), per run
    hlPc,             \* position of run()
    hlRun,            \* invocations of verify_highlighting.py started so far
    hlLog,            \* browser operations performed by this run, in order
    hlCtx,            \* browser context: "none", "open", "closed", "killed"
    hlExt,            \* the loaded extension: its identifier and worker script path
    hlWorkers,        \* URLs of the service workers of the context
    service_worker,   \* URL of the worker returned by wait_for_event, <<>> before
    extension_id,     \* string computed on line 31
    options_page_url, \* string built on line 34
    hlPending,        \* chrome.storage.sync.set calls issued, not yet committed
    hlDom             \* children of #content in test.html

pipVars == <<pipPc, pipRun, i, pollWaitMs, background_page, is_paused, pipOut, pipLog, pipCtx,
             pipTab, pipVideo, pipWorkers, pipWritePending, pipStoredAtPress, pipLocal>>
diskVars == <<fs, profiles>>
hlVars == <<hlSync, hlPc, hlRun, hlLog, hlCtx, hlExt, hlWorkers, service_worker,
            extension_id, options_page_url, hlPending, hlDom>>
vars == <<pipVars, diskVars, hlVars>>

\* ------------------------------------------------- strings, as characters
SchemePrefix == <<"c","h","r","o","m","e","-","e","x","t","e","n","s","i","o","n",":","/","/">>
OptionsPath == <<"/","s","r","c","/","o","p","t","i","o","n","s","/","i","n","d","e","x",".","h","t","m","l">>
IdAlphabet == {"a", "b"}
ExtensionIds == UNION {[1..n -> IdAlphabet] : n \in 1..MaxIdLen}
WorkerPaths == {<<"b","g",".","j","s">>, <<"s","/","w">>}

\* URL of the service worker of extension ext: chrome-extension://<id>/<path>
WorkerUrl(ext) == SchemePrefix \o ext.id \o <<"/">> \o ext.path

\* Python str.split(sep) for a one-character separator
RECURSIVE Split(_, _)
Split(s, sep) ==
    IF ~Has(s, sep)
    THEN <<s>>
    ELSE LET k == First(s, sep)
         IN  <<SubSeq(s, 1, k - 1)>> \o Split(SubSeq(s, k + 1, Len(s)), sep)

\* faulty variant of ExtractExtensionId: reads the segment after the identifier
ExtractExtensionIdNext(url) ==
    LET parts == Split(url, "/")
    IN  [ok |-> Len(parts) > ExtensionIdIndex + 1,
         id |-> IF Len(parts) > ExtensionIdIndex + 1 THEN parts[ExtensionIdIndex + 2] ELSE <<>>]

\* line 31: service_worker.url.split('/')[2]; ok is FALSE on an IndexError
ExtractExtensionId(url) ==
    LET parts == Split(url, "/")
    IN  [ok |-> Len(parts) > ExtensionIdIndex,
         id |-> IF Len(parts) > ExtensionIdIndex THEN parts[ExtensionIdIndex + 1] ELSE <<>>]

\* line 34: f"chrome-extension://{extension_id}/src/options/index.html"
OptionsPageUrl(id) == SchemePrefix \o id \o OptionsPath

\* --------------------------------------------- the rule and its JavaScript
PyStr(v) == [t |-> "str", v |-> v]
PyBool(v) == [t |-> "bool", v |-> v]      \* v is "True" or "False"

\* lines 39-50: the rule, a Python dict (insertion-ordered)
rule ==
    << <<"id", PyStr("test-rule-1")>>,
       <<"pattern", PyStr("*")>>,
       <<"type", PyStr("whole-phrase")>>,
       <<"value", PyStr("highlighted")>>,
       <<"textColor", PyStr("#000000")>>,
       <<"backgroundColor", PyStr("#ffff00")>>,
       <<"bold", PyBool("True")>>,
       <<"italic", PyBool("False")>>,
       <<"underline", PyBool("False")>>,
       <<"ignoreCase", PyBool("True")>> >>

\* JavaScript source text, as tokens: string literals, punctuation, bare words
Tok(k, s) == [k |-> k, s |-> s]
Punct(s) == Tok("punct", s)

\* faulty variant of JsonDumpsValue: writes a boolean as a quoted string
JsonDumpsValueQuoted(pv) ==
    IF pv.t = "bool"
    THEN Tok("str", IF pv.v = "True" THEN "true" ELSE "false")
    ELSE Tok("str", pv.v)

\* json.dumps of a str or a bool: a quoted string, or the word true / false
JsonDumpsValue(pv) ==
    IF pv.t = "bool"
    THEN Tok("word", IF pv.v = "True" THEN "true" ELSE "false")
    ELSE Tok("str", pv.v)

RECURSIVE JsonDumpsItems(_)
JsonDumpsItems(items) ==
    IF items = <<>>
    THEN <<>>
    ELSE <<Tok("str", items[1][1]), Punct(":"), JsonDumpsValue(items[1][2])>>
         \o (IF Len(items) > 1 THEN <<Punct(",")>> ELSE <<>>)
         \o JsonDumpsItems(Tail(items))

\* line 55: json.dumps(rule)
JsonDumps(d) == <<Punct("{")>> \o JsonDumpsItems(d) \o <<Punct("}")>>

\* line 55: the argument of chrome.storage.sync.set in the f-string:
\* {{ 'highlightTextRules': [{json.dumps(rule)}] }}
SetArgSource(d) ==
    <<Punct("{"), Tok("str", "highlightTextRules"), Punct(":"), Punct("[")>>
    \o JsonDumps(d) \o <<Punct("]"), Punct("}")>>

\* JavaScript evaluation of a literal: a string literal is a string, the words
\* true and false are booleans, any other bare word is a ReferenceError
JsScalarOk(tok) == tok.k = "str" \/ (tok.k = "word" /\ tok.s \in {"true", "false"})
JsScalar(name, tok) ==
    [name |-> name, t |-> IF tok.k = "str" THEN "string" ELSE "boolean", v |-> tok.s]

\* an object literal { "k": scalar, ... } evaluates to its fields, in order
JsObjectOk(toks) ==
    /\ Len(toks) >= 2
    /\ toks[1] = Punct("{")
    /\ toks[Len(toks)] = Punct("}")
    /\ \/ Len(toks) = 2
       \/ /\ (Len(toks) - 1) % 4 = 0
          /\ \A j \in 1..((Len(toks) - 1) \div 4) :
                /\ toks[4 * j - 2].k = "str"
                /\ toks[4 * j - 1] = Punct(":")
                /\ JsScalarOk(toks[4 * j])
                /\ toks[4 * j + 1] = Punct(IF 4 * j + 1 = Len(toks) THEN "}" ELSE ",")
JsObject(toks) ==
    [j \in 1..((Len(toks) - 1) \div 4) |-> JsScalar(toks[4 * j - 2].s, toks[4 * j])]

\* the argument { 'key': [ <object> ] } evaluates to one key holding an array
JsSetArgOk(toks) ==
    /\ Len(toks) >= 8
    /\ toks[1] = Punct("{")
    /\ toks[2].k = "str"
    /\ toks[3] = Punct(":")
    /\ toks[4] = Punct("[")
    /\ toks[Len(toks) - 1] = Punct("]")
    /\ toks[Len(toks)] = Punct("}")
    /\ JsObjectOk(SubSeq(toks, 5, Len(toks) - 2))
JsSetArg(toks) ==
    [key |-> toks[2].s,
     value |-> [t |-> "array", items |-> <<JsObject(SubSeq(toks, 5, Len(toks) - 2))>>]]

\* ------------------------------------------------------ chrome.storage.sync
StorageKeys == {"highlightTextRules"}
Undefined == [t |-> "undefined", items |-> <<>>]
UserRule == <<[name |-> "id", t |-> "string", v |-> "user-rule"]>>

\* faulty variant of StorageSet: adds the new rules to the ones already stored
StorageSetAppend(store, key, value) ==
    [store EXCEPT ![key] = IF @.t = "array"
                           THEN [t |-> "array", items |-> @.items \o value.items]
                           ELSE value]

\* chrome.storage.sync.set({key: value}) replaces what the key held
StorageSet(store, key, value) == [store EXCEPT ![key] = value]

\* chrome.storage.sync.get(key)
StorageGet(store, key) == store[key]

NoExt == [id |-> <<>>, path |-> <<>>]

HlInit ==
    /\ hlPc = "launch"
    /\ hlRun = 0
    /\ hlLog = <<>>
    /\ hlCtx = "none"
    /\ hlExt = NoExt
    /\ hlWorkers = <<>>
    /\ service_worker = <<>>
    /\ extension_id = <<>>
    /\ options_page_url = <<>>
    /\ hlPending = <<>>
    /\ hlDom = <<>>
    /\ hlSync \in {[k \in StorageKeys |-> Undefined],
                   [k \in StorageKeys |-> [t |-> "array", items |-> <<UserRule>>]]}

NoVideo == [readyState |-> 0, paused |-> TRUE, pip |-> FALSE, listener |-> FALSE]

PipInit ==
    /\ pipPc = "launch"
    /\ pipRun = 0
    /\ i = 0
    /\ pollWaitMs = 0
    /\ background_page = "None"
    /\ is_paused = "None"
    /\ pipOut = <<>>
    /\ pipLog = <<>>
    /\ pipCtx = "none"
    /\ pipTab = 0
    /\ pipVideo = NoVideo
    /\ pipWorkers = <<>>
    /\ pipWritePending = FALSE
    /\ pipStoredAtPress = 0
    /\ pipLocal \in {0, PipTabIdLiteral}

Init ==
    /\ PipInit
    /\ HlInit
    /\ fs = {}
    /\ profiles = {}

\* ------------------------------------------------ the extension (PiP side)
\* The quit-PiP command of the extension: on its shortcut it pauses the video
\* of the tab recorded under pipTabId and leaves Picture-in-Picture.
ExtQuitPip(video, tab, stored) ==
    IF stored # 0 /\ stored = tab
    THEN [video EXCEPT !.paused = TRUE, !.pip = FALSE]
    ELSE video

\* --------------------------------------------- PiP Quit Verifier: test.py
PipRunning == pipPc \notin {"done", "raised"}
PipEnded == pipPc \in {"done", "raised"}

\* lines 10-17: launch_persistent_context(user_data_dir, ...)
PipLaunch ==
    /\ pipPc = "launch"
    /\ UNCHANGED hlVars
    /\ pipRun < MaxRuns
    /\ pipRun' = pipRun + 1
    /\ profiles' = profiles \cup {PipUserDataDir}
    /\ pipLog' = Append(pipLog, "launch")
    /\ \E ok \in BOOLEAN :
          /\ pipCtx' = IF ok THEN "open" ELSE "none"
          /\ pipPc' = IF ok THEN "new_page" ELSE "raised"
    /\ UNCHANGED <<pipStoredAtPress, i, pollWaitMs, background_page, is_paused, pipOut, pipTab,
                   pipVideo, pipWorkers, pipWritePending, pipLocal, fs>>

\* line 20: page = await context.new_page(); the browser assigns the tab id
PipNewPage ==
    /\ pipPc = "new_page"
    /\ UNCHANGED hlVars
    /\ \E t \in 1..MaxTabId : pipTab' = t
    /\ pipPc' = "goto"
    /\ UNCHANGED <<pipStoredAtPress, pipRun, i, pollWaitMs, background_page, is_paused, pipOut, pipLog,
                   pipCtx, pipVideo, pipWorkers, pipWritePending, pipLocal, diskVars>>

\* line 21: page.goto(video.html); the fixture's video may or may not be playing
PipGoto ==
    /\ pipPc = "goto"
    /\ UNCHANGED hlVars
    /\ \E playing \in BOOLEAN :
          pipVideo' = [readyState |-> 0, paused |-> ~playing, pip |-> FALSE,
                       listener |-> FALSE]
    /\ pipLog' = Append(pipLog, "navigate")
    /\ pipPc' = "pip_eval"
    /\ UNCHANGED <<pipStoredAtPress, pipRun, i, pollWaitMs, background_page, is_paused, pipOut, pipCtx,
                   pipTab, pipWorkers, pipWritePending, pipLocal, diskVars>>

\* the browser loads the video's metadata while no listener is registered
PipLoadedMetadata ==
    /\ pipCtx = "open"
    /\ UNCHANGED hlVars
    /\ Has(pipLog, "navigate")
    /\ pipVideo.readyState = 0
    /\ ~pipVideo.listener
    /\ pipVideo' = [pipVideo EXCEPT !.readyState = 1]
    /\ UNCHANGED <<pipStoredAtPress, pipPc, pipRun, i, pollWaitMs, background_page, is_paused, pipOut,
                   pipLog, pipCtx, pipTab, pipWorkers, pipWritePending, pipLocal,
                   diskVars>>

\* faulty variant of PipEvaluate: requests PiP without looking at readyState
PipEvaluateNoGuard ==
    /\ pipPc = "pip_eval"
    /\ UNCHANGED hlVars
    /\ \E granted \in BOOLEAN :
          /\ pipLog' = Append(pipLog, "pip_request")
          /\ pipVideo' = [pipVideo EXCEPT !.pip = granted]
          /\ pipPc' = IF granted THEN "poll" ELSE "raised"
          /\ pipCtx' = IF granted THEN pipCtx ELSE "killed"
    /\ UNCHANGED <<pipStoredAtPress, pipRun, i, pollWaitMs, background_page, is_paused,
                   pipOut, pipTab, pipWorkers, pipWritePending, pipLocal, diskVars>>

\* lines 24-40: page.evaluate(...): request PiP now (line 29) when metadata is
\* there, else register the one-shot loadedmetadata listener (lines 31-36).
\* A rejected request on line 29 rejects the evaluate, which raises.
PipEvaluate ==
    /\ pipPc = "pip_eval"
    /\ UNCHANGED hlVars
    /\ IF pipVideo.readyState >= 1
       THEN \E granted \in BOOLEAN :
              /\ pipLog' = Append(pipLog, "pip_request")
              /\ pipVideo' = [pipVideo EXCEPT !.pip = granted]
              /\ pipPc' = IF granted THEN "poll" ELSE "raised"
              /\ pipCtx' = IF granted THEN pipCtx ELSE "killed"
       ELSE /\ pipVideo' = [pipVideo EXCEPT !.listener = TRUE]
            /\ pipPc' = "pip_wait"
            /\ UNCHANGED <<pipLog, pipCtx>>
    /\ UNCHANGED <<pipStoredAtPress, pipRun, i, pollWaitMs, background_page, is_paused, pipOut, pipTab,
                   pipWorkers, pipWritePending, pipLocal, diskVars>>

\* lines 32-35: the loadedmetadata listener runs: it requests PiP and resolves
\* the evaluate's promise only when the request is granted; a rejected request
\* throws inside the listener before resolve(), and the evaluate never returns.
PipMetadataListener ==
    /\ pipPc = "pip_wait"
    /\ UNCHANGED hlVars
    /\ pipCtx = "open"
    /\ pipVideo.listener
    /\ \E granted \in BOOLEAN :
          /\ pipVideo' = [pipVideo EXCEPT !.readyState = 1, !.listener = FALSE,
                                          !.pip = granted]
          /\ pipPc' = IF granted THEN "poll" ELSE "pip_wait"
    /\ pipLog' = Append(pipLog, "pip_request")
    /\ UNCHANGED <<pipStoredAtPress, pipRun, i, pollWaitMs, background_page, is_paused, pipOut, pipCtx,
                   pipTab, pipWorkers, pipWritePending, pipLocal, diskVars>>

\* the browser starts the extension's service worker
PipWorkerStart ==
    /\ pipCtx = "open"
    /\ UNCHANGED hlVars
    /\ pipWorkers = <<>>
    /\ pipWorkers' = <<"sw">>
    /\ UNCHANGED <<pipStoredAtPress, pipPc, pipRun, i, pollWaitMs, background_page, is_paused, pipOut,
                   pipLog, pipCtx, pipTab, pipVideo, pipWritePending, pipLocal,
                   diskVars>>

\* faulty variant of PipPoll: polls without a bound on the number of attempts
PipPollUnbounded ==
    /\ pipPc = "poll"
    /\ UNCHANGED hlVars
    /\ IF Len(pipWorkers) > 0
       THEN /\ background_page' = pipWorkers[1]
            /\ pipLog' = Append(pipLog, "worker_found")
            /\ pipPc' = "check_bg"
       ELSE UNCHANGED <<background_page, pipLog, pipPc>>
    /\ UNCHANGED <<pipStoredAtPress, i, pollWaitMs, pipRun, is_paused, pipOut, pipCtx,
                   pipTab, pipVideo, pipWorkers, pipWritePending, pipLocal, diskVars>>

\* faulty variant of PipPoll: the loop makes one attempt too many
PipPollOffByOne ==
    /\ pipPc = "poll"
    /\ UNCHANGED hlVars
    /\ IF Len(pipWorkers) > 0
       THEN /\ background_page' = pipWorkers[1]
            /\ pipLog' = Append(pipLog, "worker_found")
            /\ pipPc' = "check_bg"
            /\ UNCHANGED <<i, pollWaitMs>>
       ELSE /\ pollWaitMs' = pollWaitMs + PollSleepMs
            /\ IF i + 1 <= MaxPolls
               THEN i' = i + 1 /\ pipPc' = "poll"
               ELSE i' = i /\ pipPc' = "check_bg"
            /\ UNCHANGED <<background_page, pipLog>>
    /\ UNCHANGED <<pipStoredAtPress, pipRun, is_paused, pipOut, pipCtx, pipTab, pipVideo,
                   pipWorkers, pipWritePending, pipLocal, diskVars>>

\* lines 43-48: one iteration of the poll loop (background_page = None on entry)
PipPoll ==
    /\ pipPc = "poll"
    /\ UNCHANGED hlVars
    /\ IF Len(pipWorkers) > 0
       THEN /\ background_page' = pipWorkers[1]
            /\ pipLog' = Append(pipLog, "worker_found")
            /\ pipPc' = "check_bg"
            /\ UNCHANGED <<i, pollWaitMs>>
       ELSE /\ pollWaitMs' = pollWaitMs + PollSleepMs
            /\ IF i + 1 < MaxPolls
               THEN i' = i + 1 /\ pipPc' = "poll"
               ELSE i' = i /\ pipPc' = "check_bg"
            /\ UNCHANGED <<background_page, pipLog>>
    /\ UNCHANGED <<pipStoredAtPress, pipRun, is_paused, pipOut, pipCtx, pipTab, pipVideo, pipWorkers,
                   pipWritePending, pipLocal, diskVars>>

\* faulty variant of PipCheckBg: tests the condition the wrong way round
PipCheckBgInverted ==
    /\ pipPc = "check_bg"
    /\ UNCHANGED hlVars
    /\ IF background_page # "None"
       THEN /\ pipOut' = Append(pipOut, DiagMsg)
            /\ pipPc' = "close_early"
       ELSE /\ pipPc' = "storage_eval"
            /\ UNCHANGED pipOut
    /\ UNCHANGED <<pipStoredAtPress, pipRun, i, pollWaitMs, background_page, is_paused,
                   pipLog, pipCtx, pipTab, pipVideo, pipWorkers, pipWritePending,
                   pipLocal, diskVars>>

\* lines 50-51: if not background_page: print(...)
PipCheckBg ==
    /\ pipPc = "check_bg"
    /\ UNCHANGED hlVars
    /\ IF background_page = "None"
       THEN /\ pipOut' = Append(pipOut, DiagMsg)
            /\ pipPc' = "close_early"
       ELSE /\ pipPc' = "storage_eval"
            /\ UNCHANGED pipOut
    /\ UNCHANGED <<pipStoredAtPress, pipRun, i, pollWaitMs, background_page, is_paused, pipLog, pipCtx,
                   pipTab, pipVideo, pipWorkers, pipWritePending, pipLocal, diskVars>>

\* lines 52-53 and line 82: await context.close(); writes still in flight are lost
PipCloseContext(at) ==
    /\ pipPc = at
    /\ UNCHANGED hlVars
    /\ pipCtx' = "closed"
    /\ pipWorkers' = <<>>
    /\ pipWritePending' = FALSE
    /\ pipLog' = Append(pipLog, "close")
    /\ pipPc' = "done"
    /\ UNCHANGED <<pipStoredAtPress, pipRun, i, pollWaitMs, background_page, is_paused, pipOut, pipTab,
                   pipVideo, pipLocal, diskVars>>

PipCloseEarly == PipCloseContext("close_early")

\* faulty variant of PipStorageEval: the key is pressed before the write is made
PipStorageEvalAfterPress ==
    /\ pipPc = "storage_eval"
    /\ UNCHANGED hlVars
    /\ pipWritePending' = TRUE
    /\ pipVideo' = ExtQuitPip(pipVideo, pipTab, pipLocal)
    /\ pipStoredAtPress' = pipLocal
    /\ pipLog' = pipLog \o <<"press", "write_issued">>
    /\ pipPc' = "sleep2"
    /\ UNCHANGED <<pipRun, i, pollWaitMs, background_page, is_paused, pipOut, pipCtx,
                   pipTab, pipWorkers, pipLocal, diskVars>>

\* lines 55-61: the worker calls chrome.storage.local.set({pipTabId: 1}) and
\* returns without awaiting it
PipStorageEval ==
    /\ pipPc = "storage_eval"
    /\ UNCHANGED hlVars
    /\ pipWritePending' = TRUE
    /\ pipLog' = Append(pipLog, "write_issued")
    /\ pipPc' = "sleep1"
    /\ UNCHANGED <<pipStoredAtPress, pipRun, i, pollWaitMs, background_page, is_paused, pipOut, pipCtx,
                   pipTab, pipVideo, pipWorkers, pipLocal, diskVars>>

\* the browser commits the pending storage write
PipLocalCommit ==
    /\ pipCtx = "open"
    /\ UNCHANGED hlVars
    /\ pipWritePending
    /\ pipLocal' = PipTabIdLiteral
    /\ pipWritePending' = FALSE
    /\ UNCHANGED <<pipStoredAtPress, pipPc, pipRun, i, pollWaitMs, background_page, is_paused, pipOut,
                   pipLog, pipCtx, pipTab, pipVideo, pipWorkers, diskVars>>

\* lines 64 and 70: await asyncio.sleep(2)
PipSleep(at, to) ==
    /\ pipPc = at
    /\ UNCHANGED hlVars
    /\ pipLog' = Append(pipLog, "sleep_2000")
    /\ pipPc' = to
    /\ UNCHANGED <<pipStoredAtPress, pipRun, i, pollWaitMs, background_page, is_paused, pipOut, pipCtx,
                   pipTab, pipVideo, pipWorkers, pipWritePending, pipLocal, diskVars>>

PipSleep1 == PipSleep("sleep1", "press")

\* line 67: page.keyboard.press('Control+Shift+K'); the extension's command runs
PipPress ==
    /\ pipPc = "press"
    /\ UNCHANGED hlVars
    /\ pipVideo' = ExtQuitPip(pipVideo, pipTab, pipLocal)
    /\ pipStoredAtPress' = pipLocal
    /\ pipLog' = Append(pipLog, "press")
    /\ pipPc' = "sleep2"
    /\ UNCHANGED <<pipRun, i, pollWaitMs, background_page, is_paused, pipOut, pipCtx,
                   pipTab, pipWorkers, pipWritePending, pipLocal, diskVars>>

PipSleep2 == PipSleep("sleep2", "screenshot")

\* faulty variant of PipScreenshot: writes to the other script's path
PipScreenshotWrongPath ==
    /\ pipPc = "screenshot"
    /\ UNCHANGED hlVars
    /\ fs' = fs \cup {HlScreenshotPath}
    /\ pipLog' = Append(pipLog, "screenshot")
    /\ pipPc' = "read_paused"
    /\ UNCHANGED <<pipStoredAtPress, pipRun, i, pollWaitMs, background_page, is_paused,
                   pipOut, pipCtx, pipTab, pipVideo, pipWorkers, pipWritePending,
                   pipLocal, profiles>>

\* line 72: page.screenshot(path=...)
PipScreenshot ==
    /\ pipPc = "screenshot"
    /\ UNCHANGED hlVars
    /\ fs' = fs \cup {PipScreenshotPath}
    /\ pipLog' = Append(pipLog, "screenshot")
    /\ pipPc' = "read_paused"
    /\ UNCHANGED <<pipStoredAtPress, pipRun, i, pollWaitMs, background_page, is_paused, pipOut, pipCtx,
                   pipTab, pipVideo, pipWorkers, pipWritePending, pipLocal, profiles>>

\* line 75: is_paused = await page.evaluate("...paused")
PipReadPaused ==
    /\ pipPc = "read_paused"
    /\ UNCHANGED hlVars
    /\ is_paused' = IF pipVideo.paused THEN "True" ELSE "False"
    /\ pipLog' = Append(pipLog, "read_paused")
    /\ pipPc' = "verdict"
    /\ UNCHANGED <<pipStoredAtPress, pipRun, i, pollWaitMs, background_page, pipOut, pipCtx, pipTab,
                   pipVideo, pipWorkers, pipWritePending, pipLocal, diskVars>>

\* faulty variant of PipVerdict: prints the messages the wrong way round
PipVerdictInverted ==
    /\ pipPc = "verdict"
    /\ UNCHANGED hlVars
    /\ pipOut' = Append(pipOut, IF is_paused = "True" THEN FailMsg ELSE PassMsg)
    /\ pipLog' = Append(pipLog, "verdict")
    /\ pipPc' = "close"
    /\ UNCHANGED <<pipStoredAtPress, pipRun, i, pollWaitMs, background_page, is_paused,
                   pipCtx, pipTab, pipVideo, pipWorkers, pipWritePending,
                   pipLocal, diskVars>>

\* lines 77-80: print the verdict
PipVerdict ==
    /\ pipPc = "verdict"
    /\ UNCHANGED hlVars
    /\ pipOut' = Append(pipOut, IF is_paused = "True" THEN PassMsg ELSE FailMsg)
    /\ pipLog' = Append(pipLog, "verdict")
    /\ pipPc' = "close"
    /\ UNCHANGED <<pipStoredAtPress, pipRun, i, pollWaitMs, background_page, is_paused, pipCtx,
                   pipTab, pipVideo, pipWorkers, pipWritePending, pipLocal, diskVars>>

PipClose == PipCloseContext("close")

\* The awaited browser operations of main(); main() has no try/except, so an
\* operation that fails raises out of main() and the process exits, which
\* takes the browser down without context.close() having been called.
PipFallible == {"new_page", "goto", "pip_eval", "storage_eval", "press",
                "screenshot", "read_paused", "close_early", "close"}

PipRaise ==
    /\ pipPc \in PipFallible
    /\ UNCHANGED hlVars
    /\ pipPc' = "raised"
    /\ pipCtx' = IF pipCtx = "open" THEN "killed" ELSE pipCtx
    /\ pipWorkers' = <<>>
    /\ pipWritePending' = FALSE
    /\ UNCHANGED <<pipStoredAtPress, pipRun, i, pollWaitMs, background_page, is_paused, pipOut, pipLog,
                   pipTab, pipVideo, pipLocal, diskVars>>

\* lines 84-85: asyncio.run(main()) has returned or raised and the process has
\* exited; the script can be invoked again against the same profile
PipRestart ==
    /\ PipEnded
    /\ UNCHANGED hlVars
    /\ pipPc' = "launch"
    /\ i' = 0
    /\ pollWaitMs' = 0
    /\ background_page' = "None"
    /\ is_paused' = "None"
    /\ pipOut' = <<>>
    /\ pipLog' = <<>>
    /\ pipCtx' = "none"
    /\ pipTab' = 0
    /\ pipVideo' = NoVideo
    /\ pipWorkers' = <<>>
    /\ pipWritePending' = FALSE
    /\ pipStoredAtPress' = 0
    /\ UNCHANGED <<pipRun, pipLocal, diskVars>>

NextPip ==
    \/ PipLaunch \/ PipNewPage \/ PipGoto \/ PipLoadedMetadata \/ PipEvaluate
    \/ PipMetadataListener \/ PipWorkerStart \/ PipPoll \/ PipCheckBg
    \/ PipCloseEarly \/ PipStorageEval \/ PipLocalCommit \/ PipSleep1 \/ PipPress
    \/ PipSleep2 \/ PipScreenshot \/ PipReadPaused \/ PipVerdict \/ PipClose
    \/ PipRaise \/ PipRestart

\* the steps of main() itself: the event loop resumes the coroutine whenever
\* the operation it awaits has completed
PipScriptStep ==
    \/ PipLaunch \/ PipNewPage \/ PipGoto \/ PipEvaluate \/ PipPoll \/ PipCheckBg
    \/ PipCloseEarly \/ PipStorageEval \/ PipSleep1 \/ PipPress \/ PipSleep2
    \/ PipScreenshot \/ PipReadPaused \/ PipVerdict \/ PipClose

SpecPip == Init /\ [][NextPip]_vars

\* every awaited operation of main() that does not fail completes
FairSpecPip == SpecPip /\ WF_vars(PipScriptStep)

\* ------------------------------ Highlighting Verifier: verify_highlighting.py
HlEnded == hlPc \in {"done", "raised"}

\* lines 11-17: launch_persistent_context(user_data_dir, ...)
HlLaunch ==
    /\ hlPc = "launch"
    /\ hlRun < MaxRuns
    /\ hlRun' = hlRun + 1
    /\ profiles' = profiles \cup {HlUserDataDir}
    /\ hlLog' = Append(hlLog, "launch")
    /\ \E ok \in BOOLEAN :
          /\ hlCtx' = IF ok THEN "open" ELSE "none"
          /\ hlPc' = IF ok THEN "new_page" ELSE "raised"
    /\ UNCHANGED <<hlSync, hlExt, hlWorkers, service_worker, extension_id,
                   options_page_url, hlPending, hlDom, fs, pipVars>>

\* a step of run() that only moves on, recording the operation ev
HlStep(at, ev, to) ==
    /\ hlPc = at
    /\ hlLog' = Append(hlLog, ev)
    /\ hlPc' = to
    /\ UNCHANGED <<hlSync, hlRun, hlCtx, hlExt, hlWorkers, service_worker, extension_id,
                   options_page_url, hlPending, hlDom, diskVars, pipVars>>

\* line 20: page = context.new_page()
HlNewPage == HlStep("new_page", "new_page", "goto")
\* line 21: page.goto("https://example.com")
HlGoto == HlStep("goto", "navigate", "wait1000")
\* line 24: page.wait_for_timeout(1000)
HlWait1000 == HlStep("wait1000", "wait_1000", "send_msg")
\* line 27: page.evaluate("chrome.runtime.sendMessage({type: 'getCurrentTabId'})")
HlSendMsg == HlStep("send_msg", "send_msg", "wait_sw")

\* the browser starts the extension's service worker; a wait_for_event that
\* is registered at that moment (line 30) receives the worker
HlWorkerStart ==
    /\ hlCtx = "open"
    /\ hlWorkers = <<>>
    /\ \E id \in ExtensionIds, path \in WorkerPaths :
          /\ hlExt' = [id |-> id, path |-> path]
          /\ hlWorkers' = <<WorkerUrl([id |-> id, path |-> path])>>
          /\ IF hlPc = "wait_sw"
             THEN /\ service_worker' = WorkerUrl([id |-> id, path |-> path])
                  /\ hlLog' = Append(hlLog, "serviceworker")
                  /\ hlPc' = "extract"
             ELSE UNCHANGED <<service_worker, hlLog, hlPc>>
    /\ UNCHANGED <<hlSync, hlRun, hlCtx, extension_id, options_page_url, hlPending,
                   hlDom, diskVars, pipVars>>

\* line 30: wait_for_event('serviceworker') gives up (TimeoutError)
HlWaitTimeout ==
    /\ hlPc = "wait_sw"
    /\ hlPc' = "raised"
    /\ hlCtx' = "killed"
    /\ hlWorkers' = <<>>
    /\ UNCHANGED <<hlSync, hlRun, hlLog, hlExt, service_worker, extension_id,
                   options_page_url, hlPending, hlDom, diskVars, pipVars>>

\* lines 31-34: extension_id and options_page_url
HlExtract ==
    /\ hlPc = "extract"
    /\ LET r == ExtractExtensionId(service_worker)
       IN  IF r.ok
           THEN /\ extension_id' = r.id
                /\ options_page_url' = OptionsPageUrl(r.id)
                /\ hlPc' = "opt_new_page"
                /\ UNCHANGED <<hlCtx, hlWorkers>>
           ELSE /\ hlPc' = "raised"
                /\ hlCtx' = "killed"
                /\ hlWorkers' = <<>>
                /\ UNCHANGED <<extension_id, options_page_url>>
    /\ UNCHANGED <<hlSync, hlRun, hlLog, hlExt, service_worker, hlPending, hlDom,
                   diskVars, pipVars>>

\* line 35: options_page = context.new_page()
HlOptNewPage == HlStep("opt_new_page", "opt_new_page", "opt_goto")

\* line 36: options_page.goto(options_page_url) loads the options document of
\* the loaded extension; any other URL fails to load (HlRaise)
HlOptGoto ==
    /\ options_page_url = SchemePrefix \o hlExt.id \o OptionsPath
    /\ HlStep("opt_goto", "options_page", "set_rule")

\* faulty variant of HlSetRule: does not wait for the write, the evaluate
\* returns once the set call has been made
HlSetRuleNoAwait ==
    /\ hlPc = "set_rule"
    /\ LET src == SetArgSource(rule)
       IN  IF JsSetArgOk(src)
           THEN /\ hlPending' = Append(hlPending, JsSetArg(src))
                /\ hlLog' = Append(hlLog, "set_issued")
                /\ hlPc' = "opt_close"
                /\ UNCHANGED <<hlCtx, hlWorkers>>
           ELSE /\ hlPc' = "raised"
                /\ hlCtx' = "killed"
                /\ hlWorkers' = <<>>
                /\ UNCHANGED <<hlPending, hlLog>>
    /\ UNCHANGED <<hlSync, hlRun, hlExt, service_worker, extension_id, options_page_url,
                   hlDom, diskVars, pipVars>>

\* lines 53-57: options_page.evaluate(...): the source is evaluated, which makes
\* the chrome.storage.sync.set call; the evaluate then waits for the promise of
\* the async function, which awaits the set (pc "set_wait")
HlSetRule ==
    /\ hlPc = "set_rule"
    /\ LET src == SetArgSource(rule)
       IN  IF JsSetArgOk(src)
           THEN /\ hlPending' = Append(hlPending, JsSetArg(src))
                /\ hlLog' = Append(hlLog, "set_issued")
                /\ hlPc' = "set_wait"
                /\ UNCHANGED <<hlCtx, hlWorkers>>
           ELSE /\ hlPc' = "raised"
                /\ hlCtx' = "killed"
                /\ hlWorkers' = <<>>
                /\ UNCHANGED <<hlPending, hlLog>>
    /\ UNCHANGED <<hlSync, hlRun, hlExt, service_worker, extension_id, options_page_url,
                   hlDom, diskVars, pipVars>>

\* the browser commits the pending set; an evaluate waiting for it returns
HlSyncCommit ==
    /\ hlCtx = "open"
    /\ hlPending # <<>>
    /\ hlSync' = StorageSet(hlSync, hlPending[1].key, hlPending[1].value)
    /\ hlPending' = Tail(hlPending)
    /\ hlLog' = Append(hlLog, "set_committed")
    /\ hlPc' = IF hlPc = "set_wait" THEN "opt_close" ELSE hlPc
    /\ UNCHANGED <<hlRun, hlCtx, hlExt, hlWorkers, service_worker, extension_id,
                   options_page_url, hlDom, diskVars, pipVars>>

\* line 58: options_page.close()
HlOptClose == HlStep("opt_close", "opt_close", "goto_test")

\* line 62: page.goto(file://.../test.html)
HlGotoTest ==
    /\ hlPc = "goto_test"
    /\ hlDom' = <<>>
    /\ hlLog' = Append(hlLog, "navigate_test")
    /\ hlPc' = "mutate"
    /\ UNCHANGED <<hlSync, hlRun, hlCtx, hlExt, hlWorkers, service_worker, extension_id,
                   options_page_url, hlPending, diskVars, pipVars>>

\* lines 65-70: append a paragraph to #content
HlMutate ==
    /\ hlPc = "mutate"
    /\ hlDom' = Append(hlDom, "p")
    /\ hlLog' = Append(hlLog, "mutate")
    /\ hlPc' = "wait500"
    /\ UNCHANGED <<hlSync, hlRun, hlCtx, hlExt, hlWorkers, service_worker, extension_id,
                   options_page_url, hlPending, diskVars, pipVars>>

\* line 73: page.wait_for_timeout(500)
HlWait500 == HlStep("wait500", "wait_500", "screenshot")

\* line 75: page.screenshot(path=...)
\* faulty variant of HlScreenshot: the screenshot goes to the path test.py uses
HlScreenshotSharedPath ==
    /\ hlPc = "screenshot"
    /\ fs' = fs \cup {PipScreenshotPath}
    /\ hlLog' = Append(hlLog, "screenshot")
    /\ hlPc' = "close"
    /\ UNCHANGED <<hlSync, hlRun, hlCtx, hlExt, hlWorkers, service_worker, extension_id,
                   options_page_url, hlPending, hlDom, profiles, pipVars>>

HlScreenshot ==
    /\ hlPc = "screenshot"
    /\ fs' = fs \cup {HlScreenshotPath}
    /\ hlLog' = Append(hlLog, "screenshot")
    /\ hlPc' = "close"
    /\ UNCHANGED <<hlSync, hlRun, hlCtx, hlExt, hlWorkers, service_worker, extension_id,
                   options_page_url, hlPending, hlDom, profiles, pipVars>>

\* line 77: context.close(); writes still in flight are lost
HlClose ==
    /\ hlPc = "close"
    /\ hlCtx' = "closed"
    /\ hlWorkers' = <<>>
    /\ hlPending' = <<>>
    /\ hlLog' = Append(hlLog, "close")
    /\ hlPc' = "done"
    /\ UNCHANGED <<hlSync, hlRun, hlExt, service_worker, extension_id, options_page_url,
                   hlDom, diskVars, pipVars>>

\* The browser operations of run(); run() has no try/except, so an operation
\* that fails raises out of run() and the process exits.
HlFallible == {"new_page", "goto", "send_msg", "opt_new_page", "opt_goto", "set_wait",
               "opt_close", "goto_test", "mutate", "screenshot", "close"}

\* the position after each fallible operation
HlAfter(pc) ==
    CASE pc = "new_page" -> "goto"
      [] pc = "goto" -> "wait1000"
      [] pc = "send_msg" -> "wait_sw"
      [] pc = "opt_new_page" -> "opt_goto"
      [] pc = "opt_goto" -> "set_rule"
      [] pc = "set_wait" -> "opt_close"
      [] pc = "opt_close" -> "goto_test"
      [] pc = "goto_test" -> "mutate"
      [] pc = "mutate" -> "wait500"
      [] pc = "screenshot" -> "close"
      [] OTHER -> "done"

\* faulty variant of HlRaise: the failure is swallowed and run() goes on
HlRaiseIgnored ==
    /\ hlPc \in HlFallible
    /\ hlPc' = HlAfter(hlPc)
    /\ UNCHANGED <<hlSync, hlRun, hlLog, hlCtx, hlExt, hlWorkers, service_worker,
                   extension_id, options_page_url, hlPending, hlDom, diskVars, pipVars>>

HlRaise ==
    /\ hlPc \in HlFallible
    /\ hlPc' = "raised"
    /\ hlCtx' = "killed"
    /\ hlWorkers' = <<>>
    /\ hlPending' = <<>>
    /\ UNCHANGED <<hlSync, hlRun, hlLog, hlExt, service_worker, extension_id,
                   options_page_url, hlDom, diskVars, pipVars>>

\* lines 79-80: run() has returned or raised and the process has exited; the
\* script can be invoked again against the same profile
HlRestart ==
    /\ HlEnded
    /\ hlPc' = "launch"
    /\ hlLog' = <<>>
    /\ hlCtx' = "none"
    /\ hlExt' = NoExt
    /\ hlWorkers' = <<>>
    /\ service_worker' = <<>>
    /\ extension_id' = <<>>
    /\ options_page_url' = <<>>
    /\ hlPending' = <<>>
    /\ hlDom' = <<>>
    /\ UNCHANGED <<hlSync, hlRun, diskVars, pipVars>>

NextHl ==
    \/ HlLaunch \/ HlNewPage \/ HlGoto \/ HlWait1000 \/ HlSendMsg \/ HlWorkerStart
    \/ HlWaitTimeout \/ HlExtract \/ HlOptNewPage \/ HlOptGoto \/ HlSetRule
    \/ HlSyncCommit \/ HlOptClose \/ HlGotoTest \/ HlMutate \/ HlWait500
    \/ HlScreenshot \/ HlClose \/ HlRaise \/ HlRestart

SpecHl == Init /\ [][NextHl]_vars

\* the two scripts invoked one after the other, in any order
NextSeq ==
    \/ (hlPc = "launch" /\ NextPip)
    \/ (pipPc = "launch" /\ NextHl)

SpecSeq == Init /\ [][NextSeq]_vars

\* the one extension both scripts load from the working directory
ParExt == [id |-> <<"a">>, path |-> <<"s", "/", "w">>]

\* one invocation of each script, started at any time and running concurrently
\* as two operating-system processes
NextPar ==
    \/ (NextPip /\ pipRun' <= 1)
    \/ (NextHl /\ hlRun' <= 1 /\ hlExt' \in {NoExt, ParExt})

SpecPar == Init /\ [][NextPar]_vars

\* ===================================================================== claims
PipVerdictCount == Count(pipOut, PassMsg) + Count(pipOut, FailMsg)
PipNoLaterStep ==
    /\ ~Has(pipLog, "write_issued")
    /\ ~pipWritePending
    /\ ~Has(pipLog, "press")
    /\ ~Has(pipLog, "screenshot")
    /\ ~Has(pipLog, "read_paused")
    /\ PipVerdictCount = 0
AllPollsEmpty == pollWaitMs = MaxPolls * PollSleepMs

\* C1: when context.service_workers was empty at each of the 10 polls, the run
\* performs none of the later steps (no pipTabId write, no key press, no
\* screenshot, no verdict), and once past the check on line 50 its whole output
\* is the one diagnostic line.
C1_NoWorkerDiagnosticOnly ==
    AllPollsEmpty =>
        /\ PipNoLaterStep
        /\ pipPc \in {"close_early", "done", "raised"} => pipOut = <<DiagMsg>>

C1_Witness == AllPollsEmpty /\ pipPc = "done" /\ pipOut = <<DiagMsg>>

C3_Original ==
    (PipEnded /\ pipTab # 0) => (Count(pipLog, "close") = 1 /\ pipCtx = "closed")

C10_Original ==
    (/\ pipPc \in {"screenshot", "read_paused", "verdict", "close", "done"}
     /\ Has(pipLog, "pip_request")
     /\ background_page # "None"
     /\ pipStoredAtPress = PipTabIdLiteral)
    => pipVideo.paused

RulesKey == "highlightTextRules"
\* the rule of the claim, as the JavaScript value it is to be read back as
ExpectedRule ==
    <<[name |-> "id", t |-> "string", v |-> "test-rule-1"],
      [name |-> "pattern", t |-> "string", v |-> "*"],
      [name |-> "type", t |-> "string", v |-> "whole-phrase"],
      [name |-> "value", t |-> "string", v |-> "highlighted"],
      [name |-> "textColor", t |-> "string", v |-> "#000000"],
      [name |-> "backgroundColor", t |-> "string", v |-> "#ffff00"],
      [name |-> "bold", t |-> "boolean", v |-> "true"],
      [name |-> "italic", t |-> "boolean", v |-> "false"],
      [name |-> "underline", t |-> "boolean", v |-> "false"],
      [name |-> "ignoreCase", t |-> "boolean", v |-> "true"]>>
ExpectedStored == [t |-> "array", items |-> <<ExpectedRule>>]

\* C5: in every run that has appended the paragraph to #content, the
\* chrome.storage.sync write of highlightTextRules was committed, and not only
\* issued, before the append.
C5_CommittedBeforeMutation ==
    Has(hlLog, "mutate") =>
        /\ Has(hlLog, "set_committed")
        /\ First(hlLog, "set_issued") < First(hlLog, "set_committed")
        /\ First(hlLog, "set_committed") < First(hlLog, "mutate")
        /\ hlPending = <<>>
        /\ StorageGet(hlSync, RulesKey) = ExpectedStored

C5_Witness == Has(hlLog, "mutate") /\ hlDom = <<"p">> /\ Has(hlLog, "set_committed")

\* C6: once the run's storage write has completed, highlightTextRules reads
\* back as a one-element array holding the literal rule, every field with its
\* value and type (booleans as booleans, the rule as an object, not a string).
C6_RuleRoundTrip ==
    Has(hlLog, "set_committed") => StorageGet(hlSync, RulesKey) = ExpectedStored

C6_Witness ==
    /\ hlPc = "opt_close"
    /\ Has(hlLog, "set_committed")
    /\ StorageGet(hlSync, RulesKey).items[1][7] = [name |-> "bold", t |-> "boolean", v |-> "true"]

RuleIds(value) ==
    {f.v : f \in UNION {{r[k] : k \in {j \in 1..Len(r) : r[j].name = "id"}}
                        : r \in {value.items[n] : n \in 1..Len(value.items)}}}

\* C7: invoking the scripts again against the profiles and files a previous
\* run left: each screenshot path holds one file however many runs wrote it,
\* a launch succeeds on a profile directory that already exists, and after
\* every completed Highlighting run highlightTextRules holds exactly the one
\* rule, its id test-rule-1 occurring once.
C7_RerunSameFinalState ==
    /\ fs \subseteq {PipScreenshotPath, HlScreenshotPath}
    /\ (pipPc = "done" /\ Has(pipLog, "screenshot")) => PipScreenshotPath \in fs
    /\ (hlPc = "launch" /\ hlRun < MaxRuns /\ HlUserDataDir \in profiles)
          => ENABLED (HlLaunch /\ hlPc' = "new_page")
    /\ (pipPc = "launch" /\ pipRun < MaxRuns /\ PipUserDataDir \in profiles)
          => ENABLED (PipLaunch /\ pipPc' = "new_page")
    /\ hlPc = "done" =>
          /\ HlScreenshotPath \in fs
          /\ Len(StorageGet(hlSync, RulesKey).items) = 1
          /\ StorageGet(hlSync, RulesKey) = ExpectedStored
          /\ RuleIds(StorageGet(hlSync, RulesKey)) = {"test-rule-1"}

C7_Witness ==
    /\ hlPc = "done"
    /\ hlRun >= 2
    /\ pipRun >= 2
    /\ fs = {PipScreenshotPath, HlScreenshotPath}

\* C8: for a worker URL chrome-extension://<id>/<path>, the identifier computed
\* on line 31 is <id> and the options URL built on line 34 is
\* chrome-extension://<id>/src/options/index.html.
C8_ExtensionIdExtraction ==
    (service_worker # <<>> /\ hlPc \notin {"extract", "raised"}) =>
        /\ service_worker = SchemePrefix \o hlExt.id \o <<"/">> \o hlExt.path
        /\ extension_id = hlExt.id
        /\ options_page_url = SchemePrefix \o hlExt.id \o OptionsPath

C8_Witness ==
    /\ hlPc = "set_rule"
    /\ Len(extension_id) = MaxIdLen
    /\ Has(hlExt.path, "/")

\* C9: a run of either script that reaches its final context.close() has
\* written its screenshot to its fixed path, once, right after the last
\* settle wait (the 2 s after the key press, the 500 ms after the append) and
\* before the close.
C9_ScreenshotProduced ==
    /\ (pipPc = "done" /\ background_page # "None") =>
          /\ PipScreenshotPath \in fs
          /\ Count(pipLog, "screenshot") = 1
          /\ First(pipLog, "screenshot") >= 3
          /\ pipLog[First(pipLog, "screenshot") - 1] = "sleep_2000"
          /\ pipLog[First(pipLog, "screenshot") - 2] = "press"
          /\ First(pipLog, "screenshot") < First(pipLog, "close")
    /\ hlPc = "done" =>
          /\ HlScreenshotPath \in fs
          /\ Count(hlLog, "screenshot") = 1
          /\ First(hlLog, "screenshot") >= 3
          /\ hlLog[First(hlLog, "screenshot") - 1] = "wait_500"
          /\ hlLog[First(hlLog, "screenshot") - 2] = "mutate"
          /\ First(hlLog, "screenshot") < First(hlLog, "close")

C9_Witness ==
    /\ pipPc = "done"
    /\ background_page # "None"
    /\ PipScreenshotPath \in fs
    /\ hlRun >= 1

PipPastEvaluate ==
    pipPc \in {"poll", "check_bg", "close_early", "storage_eval", "sleep1", "press",
               "sleep2", "screenshot", "read_paused", "verdict", "close", "done"}

\* C11 as stated: requestPictureInPicture() is called exactly once in every
\* run (here: every ended run that had loaded the fixture).
C11_Original == (PipEnded /\ Has(pipLog, "navigate")) => Count(pipLog, "pip_request") = 1

\* C11 amended: requestPictureInPicture() is called at most once per run and
\* only with readyState >= 1 (at once when metadata is there at the check,
\* otherwise from the one-shot loadedmetadata listener); the script is past
\* the evaluate, at worker discovery or later, only after exactly one request
\* that was made and granted, with no listener left registered.
C11_ReadinessGuard ==
    /\ Count(pipLog, "pip_request") <= 1
    /\ Has(pipLog, "pip_request") => pipVideo.readyState >= 1
    /\ pipVideo.listener => (pipPc = "pip_wait" /\ ~Has(pipLog, "pip_request"))
    /\ PipPastEvaluate =>
          /\ Count(pipLog, "pip_request") = 1
          /\ ~pipVideo.listener
    /\ Has(pipLog, "worker_found") => First(pipLog, "pip_request") < First(pipLog, "worker_found")

C11_Witness ==
    /\ pipPc = "poll"
    /\ Count(pipLog, "pip_request") = 1
    /\ pipVideo.pip
    /\ pipVideo.readyState = 1

\* C12: the poll checks context.service_workers at most 10 times; the check
\* that finds a worker ends the loop, selects the first worker and is not
\* followed by a wait; every unsuccessful check is followed by one 500 ms wait,
\* so the time waited is 500 ms times the number of unsuccessful checks, at
\* most 5000 ms; the run goes on without a worker only after 10 unsuccessful
\* checks, so a worker present at any of the 10 checks is found.
C12_PollBound ==
    /\ [](/\ i \in 0..(MaxPolls - 1)
          /\ pollWaitMs <= MaxPolls * PollSleepMs
          /\ pipPc = "poll" => (pollWaitMs = PollSleepMs * i /\ background_page = "None")
          /\ background_page # "None" =>
                (pollWaitMs = PollSleepMs * i /\ Count(pipLog, "worker_found") = 1)
          /\ (PipPastEvaluate /\ pipPc # "poll" /\ background_page = "None") =>
                (pollWaitMs = MaxPolls * PollSleepMs /\ i = MaxPolls - 1))
    /\ [][(pipPc = "poll" /\ Len(pipWorkers) > 0 /\ pipPc' # "poll") =>
             /\ background_page' = pipWorkers[1]
             /\ pollWaitMs' = pollWaitMs
             /\ pipPc' = "check_bg"]_vars
    /\ [][(pipPc = "poll" /\ pipWorkers = <<>> /\ <<i, pollWaitMs, pipPc>>' # <<i, pollWaitMs, pipPc>>) =>
             /\ pollWaitMs' = pollWaitMs + PollSleepMs
             /\ background_page' = "None"]_vars

C12_Witness ==
    /\ background_page = "sw"
    /\ i = MaxPolls - 1
    /\ pollWaitMs = PollSleepMs * (MaxPolls - 1)
    /\ pipPc = "check_bg"

\* C13 as stated: the chrome.storage.local.set({pipTabId: 1}) write has
\* completed, 1 being readable under pipTabId, when Control+Shift+K is pressed,
\* under every interleaving of the write with the script's later steps.
C13_Original == Has(pipLog, "press") => pipStoredAtPress = PipTabIdLiteral

StepOrder == <<"navigate", "pip_request", "worker_found", "write_issued", "press",
               "screenshot", "read_paused", "verdict", "close">>
StepRank(e) == First(StepOrder, e)

\* C14: in every run the steps navigate, request PiP, discover the worker,
\* issue the pipTabId write, press Control+Shift+K, take the screenshot, read
\* paused, print the verdict, close the context occur in this order, each at
\* most once; the key is pressed only after the PiP request has resolved and
\* the write has been issued, and paused is read only after the key press.
C14_StepOrder ==
    /\ \A a, b \in 1..Len(pipLog) :
          (a < b /\ StepRank(pipLog[a]) > 0 /\ StepRank(pipLog[b]) > 0)
             => StepRank(pipLog[a]) < StepRank(pipLog[b])
    /\ Has(pipLog, "press") =>
          /\ Has(pipLog, "pip_request")
          /\ Has(pipLog, "write_issued")
          /\ ~pipVideo.listener
    /\ Has(pipLog, "read_paused") => Has(pipLog, "press")
    /\ PipVerdictCount = Count(pipLog, "verdict")

C14_Witness ==
    /\ pipPc = "done"
    /\ \A k \in 1..Len(StepOrder) : Has(pipLog, StepOrder[k])

\* C15 as stated: whenever the extension's service worker has been created
\* after launch, before or after the wait on line 30 is registered, the wait
\* receives a worker: no run whose worker exists ends in the wait timing out.
C15_Original ==
    ~(/\ hlPc = "raised"
      /\ Has(hlLog, "send_msg")
      /\ service_worker = <<>>
      /\ hlExt # NoExt)

HlFullLog == <<"launch", "new_page", "navigate", "wait_1000", "send_msg", "serviceworker",
               "opt_new_page", "options_page", "set_issued", "set_committed", "opt_close",
               "navigate_test", "mutate", "wait_500", "screenshot", "close">>

\* C16: run() is fail-stop: the operations a run has performed are always an
\* initial part of the script's sequence (no step runs unless every step
\* before it succeeded), a run that has raised performs nothing more (no
\* later step, no file, no storage change), the screenshot file is written by
\* the screenshot step only, and the script gets past the storage write only
\* when the write was committed, a rejected write raising.
C16_FailStop ==
    /\ [](/\ Len(hlLog) <= Len(HlFullLog)
          /\ hlLog = SubSeq(HlFullLog, 1, Len(hlLog))
          /\ hlPc = "raised" => (hlPending = <<>> /\ hlCtx # "open"))
    /\ [][hlPc = "raised" =>
             (hlPc' = "launch" /\ hlLog' = <<>> /\ fs' = fs /\ hlSync' = hlSync)]_vars
    /\ [][fs' # fs => (hlPc = "screenshot" /\ hlPc' = "close")]_vars
    /\ [][(hlPc = "set_wait" /\ hlPc' # "set_wait") =>
             \/ hlPc' = "raised" /\ hlSync' = hlSync
             \/ hlPc' = "opt_close" /\ Has(hlLog', "set_committed")]_vars

C16_Witness ==
    /\ hlPc = "raised"
    /\ Has(hlLog, "set_issued")
    /\ ~Has(hlLog, "set_committed")
    /\ HlScreenshotPath \notin fs

PipResources == {PipUserDataDir, PipScreenshotPath}
HlResources == {HlUserDataDir, HlScreenshotPath}
\* the files and directories of the set r among those that exist
Owned(r) == (fs \cup profiles) \cap r

\* C17: the two scripts use distinct profile directories and distinct
\* screenshot paths; with one run of each interleaved in any way, a step of
\* one script leaves the state of the other unchanged, creates no file or
\* directory other than its own two, and each script's files exist only once
\* that script has run; a completed run has produced its own output exactly
\* as it does alone.
C17_ResourceExclusivity ==
    /\ [](/\ PipResources \cap HlResources = {}
          /\ Cardinality(PipResources \cup HlResources) = 4
          /\ pipRun = 0 => Owned(PipResources) = {}
          /\ hlRun = 0 => Owned(HlResources) = {}
          /\ (pipPc = "done" /\ Has(pipLog, "screenshot")) => Owned(PipResources) = PipResources
          /\ hlPc = "done" =>
                /\ Owned(HlResources) = HlResources
                /\ StorageGet(hlSync, RulesKey) = ExpectedStored)
    /\ [][pipVars' # pipVars =>
             /\ hlVars' = hlVars
             /\ Owned(HlResources)' = Owned(HlResources)
             /\ fs \subseteq fs' /\ profiles \subseteq profiles'
             /\ (fs' \cup profiles') \ (fs \cup profiles) \subseteq PipResources]_vars
    /\ [][hlVars' # hlVars =>
             /\ pipVars' = pipVars
             /\ Owned(PipResources)' = Owned(PipResources)
             /\ fs \subseteq fs' /\ profiles \subseteq profiles'
             /\ (fs' \cup profiles') \ (fs \cup profiles) \subseteq HlResources]_vars

C17_Witness ==
    /\ pipPc = "read_paused"
    /\ hlPc = "close"
    /\ pipRun = 1
    /\ hlRun = 1
    /\ Owned(PipResources) = PipResources
    /\ Owned(HlResources) = HlResources

====
